---- MODULE Spec2Model ----
(***************************************************************************)
(* A model of the Seraphine kernel's NVMe bring-up                         *)
(* (kernel/src/filesystem/nvme.rs): init_controller and the NvmeRegisters   *)
(* methods it calls, the admin submission/completion rings, and the        *)
(* controller on the other side of the rings; and the PCI bus scan         *)
(* find_first_nvme over get_pci_device (src/hardware/PCI.rs).              *)
(*                                                                         *)
(* Addresses are records [space, addr]: space "phys" is a physical         *)
(* address, space "virt" is 0xffff_8000_0000_0000 + addr.                  *)
(***************************************************************************)
EXTENDS Integers, Sequences, FiniteSets

\* ------------------------------------------------------------ constants
NVME_RESET_TIMEOUT == 100
QUEUE_SIZE == 256
NVME_ADMIN_IDENTIFY == 6
NVME_IDENTIFY_CNS == 1
REG_CAP == 0
REG_CC == 20
REG_AQA == 36
REG_ASQ == 40
REG_ACQ == 48
DOORBELL_BASE == 4096
PAGE_SIZE == 4096
FIRST_FRAME_ADDR == 1048576
\* struct NvmeCommand, repr(C): u8 u8 u16 u32, five u64, six u32
SIZEOF_NvmeCommand == 72
INIT_COMMAND_BITS == 1030
SCAN_BUS_LAST == 255
SCAN_DEVICE_END == 31
SCAN_FUNCTION_END == 7
CLASS_MASS_STORAGE == 1
SUBCLASS_NVME == 8
\* vga_buffer.rs
BUFFER_HEIGHT == 25
BUFFER_WIDTH == 80
VENDOR_NONE == 65535

\* ------------------------------------------------------------ bounds
\* frames the allocator can hand out before it returns None
MaxFrames == 3
\* regions in a memory map, and allocate_frame calls made on it
MaxRegions == 3
MaxAllocs == 6
\* admin commands issued in one run of the ring specification
MaxSubmits == 258
\* commands the controller may lag behind the submission tail
MaxLag == 2
\* timer interrupts in one run of the timer specification
MaxTicks == 7

\* ------------------------------------------------------------ state
VARIABLES
    pc,                     \* control position of the driver
    nvme_base_addr,         \* NvmeRegisters.nvme_base_addr (0: no device found)
    doorbell_stride,        \* NvmeRegisters.doorbell_stride
    submission_queue_tail,  \* NvmeRegisters.submission_queue_tail
    completion_queue_head,  \* NvmeRegisters.completion_queue_head
    timeout,                \* local `timeout` of wait_nvme_reset
    cap_dstrd,              \* hardware: CAP.DSTRD, bits 40..43 of register 0x00
    cap_low16,              \* hardware: low 16 bits of register 0x00
    reg_asq,                \* hardware: register 0x28 as it reads back
    reg_acq,                \* hardware: register 0x30 as it reads back
    writes,                 \* volatile stores of the driver, in program order
    allocNext,              \* frame allocator: frames handed out so far
    allocLimit,             \* frame allocator: frames it can hand out
    pageMap,                \* page table: set of <<virtual page, frame>>
    asq_frame,              \* frame allocated for the submission ring
    acq_frame,              \* frame allocated for the completion ring
    identify_frame,         \* frame allocated for the Identify result
    cmdResult,              \* result of the last submit_admin_command
    identify_read,          \* the Identify frame was mapped and interpreted
    garbage,                \* <<phase_tag, status>> words of the slot at head
                            \* where the controller has not written them
    sq_doorbell,            \* controller: last submission tail it was told
    ctrl_sq_head,           \* controller: next submission slot to fetch
    ctrl_cq_tail,           \* controller: next completion slot to write
    ctrl_phase,             \* controller: phase tag of the current pass
    ctrl_wrapped,           \* controller: has written the whole ring once
    ctrl_status,            \* controller: <<status code type, status code>>
    rdyClearSeen,           \* history: a reset poll read readiness bit 0
    resetTimedOut,          \* history: the reset wait used up its polls
    enableStatus,           \* history: status read by enable(), -1 before
    readyCsts,              \* history: status read by is_controller_ready()
    readyReached,           \* history: init_controller took the ready branch
    lastAccept,             \* history: "none", "fresh", "unwritten", "old"
    inFlightAtSubmit,       \* history: commands the controller had not
                            \* completed when the last one was submitted
    submits,                \* history: commands submitted
    sinceConsume,           \* history: submissions since the last consumption
    tailAtConsume,          \* history: tail at the last consumption
    lastStatus,             \* history: `completion.status` of the entry
                            \* accepted last, -1 before
    pci,                    \* hardware: the populated PCI functions, as
                            \* their configuration headers
    scan,                   \* history: outcome of find_first_nvme
    evalIn,                 \* a function called on its own: its arguments
    evalOut,                \* ... and the value it returned
    TIMER_TICKS,            \* pit.rs: `static mut TIMER_TICKS`
    timer_wait,             \* a call of timer_wait_ms: position and locals
    writer,                 \* vga_buffer.rs: the fields of WRITER
    vga,                    \* ... the characters of its Buffer, by row, column
    pending,                \* bytes of a write_fmt not yet written
    memory_rs,              \* which memory.rs BootInfoFrameAllocator is of
    memory_regions,         \* BootInfoFrameAllocator.memory_regions
    next,                   \* BootInfoFrameAllocator.next
    allocated,              \* history: what its allocate_frame calls returned
    heap_pc,                \* init_heap: position
    heap_page,              \* init_heap: `i` of the page loop
    heapMapped,             \* history: <<page, frame>> mapped, in order
    tablesMissing,          \* page tables map_to has yet to create
    map_valid,              \* outcome of validate_uefi_memory_map
    ALLOCATOR               \* allocator.rs: the heap `static ALLOCATOR` holds

vars == <<pc, nvme_base_addr, doorbell_stride, submission_queue_tail,
          completion_queue_head, timeout, cap_dstrd, cap_low16, reg_asq,
          reg_acq, writes, allocNext, allocLimit, pageMap, asq_frame,
          acq_frame, identify_frame, cmdResult, identify_read, garbage,
          sq_doorbell, ctrl_sq_head, ctrl_cq_tail, ctrl_phase, ctrl_wrapped,
          ctrl_status, rdyClearSeen, resetTimedOut, enableStatus, readyCsts,
          readyReached, lastAccept, inFlightAtSubmit, submits, sinceConsume,
          tailAtConsume, lastStatus, pci, scan, evalIn, evalOut, TIMER_TICKS,
          timer_wait, writer, vga, pending, memory_rs, memory_regions, next,
          allocated, heap_pc, heap_page, heapMapped, tablesMissing, map_valid,
          ALLOCATOR>>

driverVars == <<nvme_base_addr, doorbell_stride, submission_queue_tail,
                completion_queue_head, timeout>>
hwVars == <<cap_dstrd, cap_low16, reg_asq, reg_acq>>
pciVars == <<pci, scan>>
timerVars == <<TIMER_TICKS, timer_wait>>
consoleVars == <<writer, vga, pending>>
frameVars == <<memory_rs, memory_regions, next, allocated>>
heapVars == <<heap_pc, heap_page, heapMapped, tablesMissing, map_valid,
              ALLOCATOR>>
kernelVars == <<frameVars, heapVars>>
auxVars == <<evalIn, evalOut, timerVars, consoleVars, kernelVars>>
memVars == <<allocNext, allocLimit, pageMap, asq_frame, acq_frame,
             identify_frame>>
ctrlVars == <<sq_doorbell, ctrl_sq_head, ctrl_cq_tail, ctrl_phase,
              ctrl_wrapped>>
resetHist == <<rdyClearSeen, resetTimedOut, enableStatus, readyCsts,
               readyReached>>
ringHist == <<lastAccept, inFlightAtSubmit, submits, sinceConsume,
              tailAtConsume, lastStatus>>

\* the driver, the controller and the bus
progVars == <<pc, driverVars, hwVars, pciVars, memVars, writes, cmdResult,
              identify_read, garbage, ctrlVars, ctrl_status, resetHist,
              ringHist>>

\* ------------------------------------------------------------ helpers
None == [space |-> "none", addr |-> 0]
Phys(a) == [space |-> "phys", addr |-> a]
Virt(a) == [space |-> "virt", addr |-> a]
AddrAdd(a, n) == [a EXCEPT !.addr = @ + n]
PageOf(a) == [a EXCEPT !.addr = @ - (@ % PAGE_SIZE)]

RECURSIVE Pow2(_)
Pow2(n) == IF n = 0 THEN 1 ELSE 2 * Pow2(n - 1)
Shl(x, n) == x * Pow2(n)
Shr(x, n) == x \div Pow2(n)

RECURSIVE BitOr(_, _)
BitOr(x, y) ==
    IF x = 0 THEN y
    ELSE IF y = 0 THEN x
    ELSE (IF x % 2 = 1 \/ y % 2 = 1 THEN 1 ELSE 0)
         + 2 * BitOr(x \div 2, y \div 2)

\* values the status register 0x1C may read as: bit 0 RDY, bit 1 CFS
StatusValues == 0 .. 3
\* doorbell strides CAP may report
StrideValues == {0, 1, 15}
\* every value of `(cap >> 40) & 0x0F`
DstrdValues == 0 .. 15
\* contents of completion-ring words the controller has not written
GarbagePhase == {0, 1}
GarbageStatus == {0, 512, 516}
\* completion statuses of the controller: success, and type 1 code 2
StatusChoices == {<<0, 0>>, <<1, 2>>}

\* the k-th frame the allocator hands out
FrameAddr(k) == Phys(FIRST_FRAME_ADDR + k * PAGE_SIZE)
\* address of a controller register as the driver computes it
RegAddr(off) == AddrAdd(Virt(nvme_base_addr), off)
RegWrite(off, v) == [kind |-> "reg", addr |-> RegAddr(off), val |-> v]

\* Result<(), &'static str> of submit_admin_command; a failure carries the
\* status code type and status code wait_for_completion decoded and logged
NoResult == [ok |-> FALSE, sct |-> -1, sc |-> -1]
Ok == [ok |-> TRUE, sct |-> 0, sc |-> 0]
Err(sct, sc) == [ok |-> FALSE, sct |-> sct, sc |-> sc]

\* no function is being called on its own
NoCall == [fn |-> "none"]
\* no call of timer_wait_ms is under way
NoWait == [at |-> "idle", ms |-> 0, ticks |-> 0, ticks_to_wait |-> 0,
           reloads |-> TRUE, returned_at |-> 0]

Log(ws) == writes' = writes \o ws
Panic == pc' = "panic"

\* ------------------------------------------------------------ pure parts
\* wait_nvme_reset: the poll that ends the wait (`if status == 0`)
ResetComplete(status) == status = 0
\* enable: the status it reports as success (`if status == 1`)
EnableObserved(status) == status = 1
\* a readiness test on the whole status word
is_controller_ready_whole_word(csts) == csts = 1
\* is_controller_ready: `(csts & 0x1) == 1`
is_controller_ready(csts) == (csts % 2) = 1
\* queue sizes that are the depth, not the depth minus one
AqaValueDepth == BitOr(QUEUE_SIZE, Shl(QUEUE_SIZE, 16))
\* init_admin_queues: `(QUEUE_SIZE - 1) | ((QUEUE_SIZE - 1) << 16)`
AqaValue == BitOr(QUEUE_SIZE - 1, Shl(QUEUE_SIZE - 1, 16))
\* a tail that is not reduced modulo the depth
NextTailNoWrap(t) == t + 1
\* submit_admin_command: `(tail + 1) % QUEUE_SIZE`
NextTail(t) == (t + 1) % QUEUE_SIZE
\* a head that is not reduced modulo the depth
NextHeadNoWrap(h) == h + 1
\* wait_for_completion: `(head + 1) % QUEUE_SIZE`; the following
\* `if head == QUEUE_SIZE { head = 0 }` never fires after the modulo
NextHead(h) == LET n == (h + 1) % QUEUE_SIZE IN IF n = QUEUE_SIZE THEN 0 ELSE n
\* a tail doorbell offset computed with the head doorbell's factor
SqTailDoorbellOffsetFactor3(stride) == DOORBELL_BASE + 3 * Shl(4, stride)
\* submit_admin_command: `0x1000 + 2 * (4 << doorbell_stride)`
SqTailDoorbellOffset(stride) == DOORBELL_BASE + 2 * Shl(4, stride)
\* wait_for_completion: `0x1000 + 3 * (4 << doorbell_stride)`
CqHeadDoorbellOffset(stride) == DOORBELL_BASE + 3 * Shl(4, stride)
\* wait_for_completion: `(completion.phase_tag & 1) == (head & 1)`
PhaseMatches(phase_tag, head) == (phase_tag % 2) = (head % 2)
\* wait_for_completion: `(status >> 1) != 0`
CommandFailed(status) == Shr(status, 1) # 0
\* wait_for_completion: `(status >> 9) & 0x7` and `(status >> 1) & 0xFF`
StatusCodeType(status) == Shr(status, 9) % 8
StatusCode(status) == Shr(status, 1) % 256

\* struct NvmeCompletion, repr(C): u32 u32 u16 u16 u16 u16 u16, padded to
\* its 4-byte alignment
SIZEOF_NvmeCompletion == 20
OFFSET_phase_tag == 14
OFFSET_status == 16
\* 16-bit word of the completion ring holding a field of element h of
\* `acq_addr.add(h)`
PhaseWordIndex(h) == (h * SIZEOF_NvmeCompletion + OFFSET_phase_tag) \div 2
StatusWordIndex(h) == (h * SIZEOF_NvmeCompletion + OFFSET_status) \div 2

\* an Identify command with the result frame in the second pointer
IdentifyCommandPrp2(cns, nsid, frame) ==
    [opcode |-> NVME_ADMIN_IDENTIFY, flags |-> 0, command_id |-> 0,
     namespace_id |-> nsid, reserved1 |-> 0, reserved2 |-> 0,
     metadata_ptr |-> 0, prp1 |-> 0, prp2 |-> frame,
     command_specific |-> <<cns % 256, 0, 0, 0, 0, 0>>]
\* send_identify_command: the NvmeCommand it builds
IdentifyCommand(cns, nsid, frame) ==
    [opcode |-> NVME_ADMIN_IDENTIFY, flags |-> 0, command_id |-> 0,
     namespace_id |-> nsid, reserved1 |-> 0, reserved2 |-> 0,
     metadata_ptr |-> 0, prp1 |-> frame, prp2 |-> 0,
     command_specific |-> <<cns % 256, 0, 0, 0, 0, 0>>]

\* ------------------------------------------------------------ controller
\* The controller writes 16-byte completion entries (8 words: result,
\* reserved, sq head, sq id, command id, status+phase) at ring index
\* ctrl_cq_tail. It is told the submission tail by the value the driver
\* stores as the tail doorbell.
CtrlWritten(e) == e < QUEUE_SIZE /\ (ctrl_wrapped \/ e < ctrl_cq_tail)
CtrlEntryPhase(e) == IF e < ctrl_cq_tail THEN ctrl_phase ELSE 1 - ctrl_phase
CtrlStatusWord(e) ==
    Shl(ctrl_status[1], 9) + Shl(ctrl_status[2], 1) + CtrlEntryPhase(e)
CtrlWord(e, k) ==
    IF k = 7 THEN CtrlStatusWord(e)
    ELSE IF k = 4 THEN (e + 1) % QUEUE_SIZE
    ELSE 0
\* the word of completion-ring memory the driver reads at word index w
AcqWord(w) ==
    IF CtrlWritten(w \div 8) THEN CtrlWord(w \div 8, w % 8)
    ELSE IF w = PhaseWordIndex(completion_queue_head) THEN garbage[1]
    ELSE garbage[2]

\* commands the driver has submitted and the controller has not completed
CtrlLag == (sq_doorbell - ctrl_sq_head) % QUEUE_SIZE

ControllerPost ==
    /\ ctrl_sq_head # sq_doorbell
    /\ ctrl_sq_head' = (ctrl_sq_head + 1) % QUEUE_SIZE
    /\ ctrl_cq_tail' = (ctrl_cq_tail + 1) % QUEUE_SIZE
    /\ ctrl_phase' = IF ctrl_cq_tail + 1 = QUEUE_SIZE THEN 1 - ctrl_phase
                     ELSE ctrl_phase
    /\ ctrl_wrapped' = (ctrl_wrapped \/ ctrl_cq_tail + 1 = QUEUE_SIZE)
    /\ UNCHANGED <<pc, driverVars, hwVars, auxVars, pciVars, memVars, writes, cmdResult,
                   identify_read, garbage, sq_doorbell, ctrl_status,
                   resetHist, ringHist>>

\* ------------------------------------------------------------ allocator
\* FrameAllocator::allocate_frame: the next frame, or None once exhausted
AllocResult == IF allocNext < allocLimit THEN FrameAddr(allocNext) ELSE None

\* ------------------------------------------------------------ bus scan
\* A 32-bit value is <<low 16 bits, high 16 bits>>; a 64-bit value is four
\* 16-bit words, lowest first.
RECURSIVE BitAnd(_, _)
BitAnd(x, y) ==
    IF x = 0 \/ y = 0 THEN 0
    ELSE (IF x % 2 = 1 /\ y % 2 = 1 THEN 1 ELSE 0)
         + 2 * BitAnd(x \div 2, y \div 2)
\* `x as u32` of a u8
U32(x) == <<x, 0>>
Or32(x, y) == <<BitOr(x[1], y[1]), BitOr(x[2], y[2])>>
And32(x, y) == <<BitAnd(x[1], y[1]), BitAnd(x[2], y[2])>>
\* u32 `x << n`; bits shifted past bit 31 are lost
RECURSIVE Shl32(_, _)
Shl32(x, n) ==
    IF n >= 16 THEN Shl32(<<0, x[1]>>, n - 16)
    ELSE <<Shl(x[1], n) % 65536,
           (Shl(x[2], n) + Shr(x[1], 16 - n)) % 65536>>
\* u32 `x >> n`
RECURSIVE Shr32(_, _)
Shr32(x, n) ==
    IF n >= 16 THEN Shr32(<<x[2], 0>>, n - 16)
    ELSE <<Shr(x[1], n) + Shl(x[2] % Pow2(n), 16 - n), Shr(x[2], n)>>
\* u32 `x + n` for a small n
Add32(x, n) ==
    <<(x[1] + n) % 65536, (x[2] + (x[1] + n) \div 65536) % 65536>>
\* `x as u64` of a u32, and u64 `|`, `&`, `<< 32`
U64(x) == <<x[1], x[2], 0, 0>>
Or64(x, y) == [i \in 1 .. 4 |-> BitOr(x[i], y[i])]
And64(x, y) == [i \in 1 .. 4 |-> BitAnd(x[i], y[i])]
Shl64by32(x) == <<0, 0, x[1], x[2]>>

\* configuration headers of PCI functions, by field; bar0 and bar1 are
\* 32-bit values
Header(b, d, f, vendor, class, subclass, bar0) ==
    [bus |-> b, device |-> d, function |-> f, vendor_id |-> vendor,
     device_id |-> 16, class_code |-> class, subclass_code |-> subclass,
     prog_if |-> 2, revision_id |-> 1, bar0 |-> bar0, bar1 |-> <<0, 0>>]
\* a function that is not populated reads as all ones
AbsentHeader(b, d, f) ==
    [Header(b, d, f, VENDOR_NONE, 255, 255, <<65535, 65535>>)
         EXCEPT !.device_id = 65535, !.prog_if = 255, !.revision_id = 255,
                !.bar1 = <<65535, 65535>>]
NvmeFunction(b, d, f) ==
    Header(b, d, f, 6966, CLASS_MASS_STORAGE, SUBCLASS_NVME, <<4, 1>>)
SataFunction(b, d, f) ==
    Header(b, d, f, 32902, CLASS_MASS_STORAGE, 6, <<0, 0>>)
BridgeFunction(b, d, f) == Header(b, d, f, 32902, 6, 0, <<0, 0>>)
\* a slot whose vendor id reads 0xFFFF while its class bytes read 01/08
GhostFunction(b, d, f) ==
    Header(b, d, f, VENDOR_NONE, CLASS_MASS_STORAGE, SUBCLASS_NVME, <<0, 0>>)

\* the configuration header of a function
ConfigHeader(b, d, f) ==
    IF \E h \in pci : h.bus = b /\ h.device = d /\ h.function = f
    THEN CHOOSE h \in pci : h.bus = b /\ h.device = d /\ h.function = f
    ELSE AbsentHeader(b, d, f)

\* the dword at dword index k of a header: vendor and device id, revision
\* to class code at 0x08, BAR0 at 0x10, BAR1 at 0x14
HeaderDword(h, k) ==
    IF k = 0 THEN <<h.vendor_id, h.device_id>>
    ELSE IF k = 2 THEN <<h.revision_id + 256 * h.prog_if,
                         h.subclass_code + 256 * h.class_code>>
    ELSE IF k = 4 THEN h.bar0
    ELSE IF k = 5 THEN h.bar1
    ELSE IF h.vendor_id = VENDOR_NONE THEN <<65535, 65535>>
    ELSE <<0, 0>>

\* a configuration address with the device number one bit too high
pci_config_address_dev12(bus, device, function, offset) ==
    Or32(Or32(Or32(Or32(<<0, 32768>>, Shl32(U32(bus), 16)),
                   Shl32(U32(device), 12)),
              Shl32(U32(function), 8)),
         And32(U32(offset), U32(252)))
\* pci_config_address: `0x8000_0000 | (bus << 16) | (device << 11) |
\* (function << 8) | (offset & 0xFC)`
pci_config_address(bus, device, function, offset) ==
    Or32(Or32(Or32(Or32(<<0, 32768>>, Shl32(U32(bus), 16)),
                   Shl32(U32(device), 11)),
              Shl32(U32(function), 8)),
         And32(U32(offset), U32(252)))

\* the ports: after `address` is written to 0xCF8, a 32-bit read of 0xCFC
\* returns the dword the address selects; bits 0..1 of the address are
\* reserved and do not take part in the selection
PortRead(address) ==
    LET b == address[2] % 256
        d == Shr(address[1], 11)
        f == Shr(address[1], 8) % 8
        k == Shr(address[1] % 256, 2)
    IN  HeaderDword(ConfigHeader(b, d, f), k)

\* read_pci_config_word: `(data_port.read() & 0xFFFF) as u16`
read_pci_config_word(address) == PortRead(address)[1]
\* read_pci_config_dword
read_pci_config_dword(address) == PortRead(address)
\* read_pci_config_byte: the address aligned, the data shifted by
\* `(address & 0x03) * 8`
read_pci_config_byte(address) ==
    LET data == PortRead(And32(address, <<65532, 65535>>))
        shift == (address[1] % 4) * 8
    IN  Shr32(data, shift)[1] % 256
\* read_pci_bar
read_pci_bar(b, d, f, bar_num) ==
    read_pci_config_dword(pci_config_address(b, d, f, 16 + bar_num * 4))

\* get_pci_device: None when the vendor id reads 0xFFFF, else the fields
get_pci_device(b, d, f) ==
    LET address == pci_config_address(b, d, f, 0)
        vendor_id == read_pci_config_word(address)
    IN  IF vendor_id = VENDOR_NONE
        THEN [some |-> FALSE, vendor_id |-> vendor_id, device_id |-> 0,
              class_code |-> 0, subclass_code |-> 0, prog_if |-> 0,
              revision_id |-> 0]
        ELSE [some |-> TRUE, vendor_id |-> vendor_id,
              device_id |-> read_pci_config_word(Add32(address, 2)),
              class_code |-> read_pci_config_byte(Add32(address, 11)),
              subclass_code |-> read_pci_config_byte(Add32(address, 10)),
              prog_if |-> read_pci_config_byte(Add32(address, 9)),
              revision_id |-> read_pci_config_byte(Add32(address, 8))]

\* find_first_nvme: the test of its innermost `if`
IsNvme(dev) ==
    /\ dev.some
    /\ dev.class_code = CLASS_MASS_STORAGE
    /\ dev.subclass_code = SUBCLASS_NVME

\* the mask 0xFFFFFFF0 of get_nvme_base_addr, as a u64
BarAddressMask == <<65520, 65535, 0, 0>>
\* a combination that keeps the BAR's type bits
CombineBarsUnmasked(bar0, bar1) == Or64(Shl64by32(U64(bar1)), U64(bar0))
\* get_nvme_base_addr: `((bar1 as u64) << 32) | (bar0 as u64 & 0xFFFFFFF0)`
CombineBars(bar0, bar1) ==
    Or64(Shl64by32(U64(bar1)), And64(U64(bar0), BarAddressMask))
\* get_nvme_base_addr, as a 64-bit value
get_nvme_base_addr(b, d, f) ==
    CombineBars(read_pci_bar(b, d, f, 0), read_pci_bar(b, d, f, 1))
\* a 64-bit address below 2^31 as a number
AddrOf(x) == x[1] + 65536 * x[2]

\* find_first_nvme: the triples its three loops visit (`0..=255`, `0..31`,
\* `0..7`), and the number of get_pci_device calls made before a triple
InScanRange(b, d, f) ==
    /\ b \in 0 .. SCAN_BUS_LAST
    /\ d \in 0 .. SCAN_DEVICE_END - 1
    /\ f \in 0 .. SCAN_FUNCTION_END - 1
ProbeIndex(b, d, f) == (b * SCAN_DEVICE_END + d) * SCAN_FUNCTION_END + f
\* find_first_nvme: the triples that pass its `if`s. A function that is not
\* in `pci` reads vendor id 0xFFFF, so only populated functions can pass.
ScanMatches ==
    {h \in pci : /\ InScanRange(h.bus, h.device, h.function)
                 /\ IsNvme(get_pci_device(h.bus, h.device, h.function))}

NoScan == [found |-> FALSE, bus |-> 0, device |-> 0, function |-> 0,
           probes |-> 0]

\* find_first_nvme: the loops return at the first match in visiting order
\* (bus outermost) with the address get_nvme_base_addr reads for it; they
\* end without a match after visiting every triple, and 0 is returned
find_first_nvme ==
    IF ScanMatches = {}
    THEN [scan |-> [NoScan EXCEPT !.probes = ProbeIndex(SCAN_BUS_LAST + 1,
                                                       0, 0)],
          addr |-> 0]
    ELSE LET h == CHOOSE m \in ScanMatches :
                      \A o \in ScanMatches :
                          ProbeIndex(m.bus, m.device, m.function)
                              <= ProbeIndex(o.bus, o.device, o.function)
         IN  [scan |-> [found |-> TRUE, bus |-> h.bus, device |-> h.device,
                        function |-> h.function,
                        probes |-> ProbeIndex(h.bus, h.device, h.function)
                                       + 1],
              addr |-> AddrOf(get_nvme_base_addr(h.bus, h.device,
                                                 h.function))]

\* populations of the bus: no NVMe controller, or one behind a bridge
PciConfigs ==
    {{BridgeFunction(0, 0, 0)},
     {BridgeFunction(0, 0, 0), NvmeFunction(0, 3, 0)}}
\* further populations: a controller at the last device number, at the
\* last function number, at the last triple the loops reach, two
\* controllers, other storage before the controller, and slots whose
\* vendor id reads 0xFFFF
ScanConfigs ==
    PciConfigs \cup
    {{},
     {NvmeFunction(0, 31, 0)},
     {BridgeFunction(0, 0, 0), NvmeFunction(0, 4, 7)},
     {NvmeFunction(0, 31, 0), NvmeFunction(1, 0, 0)},
     {NvmeFunction(0, 5, 7), NvmeFunction(0, 6, 0)},
     {SataFunction(0, 1, 0), NvmeFunction(2, 0, 1), NvmeFunction(2, 0, 3)},
     {GhostFunction(0, 2, 0), NvmeFunction(255, 30, 6)},
     {GhostFunction(0, 2, 0), BridgeFunction(0, 0, 0)}}

\* ------------------------------------------------------------ bring-up
\* init_controller: find_first_nvme and NvmeRegisters::new
FindFirstNvme ==
    /\ pc = "start"
    /\ nvme_base_addr' = find_first_nvme.addr
    /\ scan' = find_first_nvme.scan
    /\ UNCHANGED pci
    /\ doorbell_stride' = 0
    /\ submission_queue_tail' = 0
    /\ completion_queue_head' = 0
    /\ pc' = "map_nvme_base"
    /\ UNCHANGED <<timeout, hwVars, auxVars, memVars, writes, cmdResult,
                   identify_read, garbage, ctrlVars, ctrl_status, resetHist,
                   ringHist>>

\* map_nvme_base: map_to(...).expect("map_to failed")
MapNvmeBase ==
    /\ pc = "map_nvme_base"
    /\ \E ok \in BOOLEAN :
          IF ok
          THEN /\ pageMap' = pageMap \cup
                      {<<PageOf(Virt(nvme_base_addr)),
                         PageOf(Phys(nvme_base_addr))>>}
               /\ pc' = "send_init_command"
          ELSE /\ Panic
               /\ UNCHANGED pageMap
    /\ UNCHANGED <<driverVars, hwVars, auxVars, pciVars, allocNext, allocLimit, asq_frame,
                   acq_frame, identify_frame, writes, cmdResult,
                   identify_read, garbage, ctrlVars, ctrl_status, resetHist,
                   ringHist>>

\* send_init_command: a 16-bit read-modify-write at the window base
SendInitCommand ==
    /\ pc = "send_init_command"
    /\ Log(<<[kind |-> "reg", addr |-> RegAddr(REG_CAP),
              val |-> BitOr(cap_low16, INIT_COMMAND_BITS)]>>)
    /\ pc' = "reset"
    /\ UNCHANGED <<driverVars, hwVars, auxVars, pciVars, memVars, cmdResult, identify_read,
                   garbage, ctrlVars, ctrl_status, resetHist, ringHist>>

\* reset: parse CAP, write 0 to 0x14, enter wait_nvme_reset
Reset ==
    /\ pc = "reset"
    /\ doorbell_stride' = cap_dstrd
    /\ Log(<<RegWrite(REG_CC, 0)>>)
    /\ timeout' = NVME_RESET_TIMEOUT
    /\ pc' = "wait_nvme_reset"
    /\ UNCHANGED <<nvme_base_addr, submission_queue_tail,
                   completion_queue_head, hwVars, auxVars, pciVars, memVars, cmdResult,
                   identify_read, garbage, ctrlVars, ctrl_status, resetHist,
                   ringHist>>

\* a poll that counts up, so that the polls are never used up
NextTimeoutUp(t) == t + 1
\* wait_nvme_reset: `timeout -= 1`
NextTimeout(t) == t - 1

\* wait_nvme_reset: one iteration of `while timeout > 0`
WaitNvmeResetPoll ==
    /\ pc = "wait_nvme_reset"
    /\ timeout > 0
    /\ \E status \in StatusValues :
          /\ rdyClearSeen' = (rdyClearSeen \/ status % 2 = 0)
          /\ IF ResetComplete(status)
             THEN /\ Log(<<RegWrite(REG_CC, 1)>>)
                  /\ pc' = "init_admin_queues"
                  /\ UNCHANGED timeout
             ELSE /\ timeout' = NextTimeout(timeout)
                  /\ UNCHANGED <<writes, pc>>
    /\ UNCHANGED <<nvme_base_addr, doorbell_stride, submission_queue_tail,
                   completion_queue_head, hwVars, auxVars, pciVars, memVars, cmdResult,
                   identify_read, garbage, ctrlVars, ctrl_status,
                   resetTimedOut, enableStatus, readyCsts, readyReached,
                   ringHist>>

\* wait_nvme_reset: the loop ends with timeout = 0; it logs and returns
WaitNvmeResetTimeout ==
    /\ pc = "wait_nvme_reset"
    /\ timeout = 0
    /\ resetTimedOut' = TRUE
    /\ pc' = "init_admin_queues"
    /\ UNCHANGED <<driverVars, hwVars, auxVars, pciVars, memVars, writes, cmdResult,
                   identify_read, garbage, ctrlVars, ctrl_status,
                   rdyClearSeen, enableStatus, readyCsts, readyReached,
                   ringHist>>

\* init_admin_queues with configure_queues and map_queue: allocate two
\* frames (expect), map both virtual pages to the first frame (panic on
\* Err), store the virtual addresses in 0x28 and 0x30, store 0x24
InitAdminQueues ==
    /\ pc = "init_admin_queues"
    /\ LET asq == AllocResult
           acq == IF allocNext + 1 < allocLimit THEN FrameAddr(allocNext + 1)
                  ELSE None
           asq_virt_addr == Virt(asq.addr)
           acq_virt_addr == Virt(acq.addr)
       IN  IF asq = None
           THEN /\ allocNext' = allocNext + 1
                /\ Panic
                /\ UNCHANGED <<submission_queue_tail, completion_queue_head,
                               reg_asq, reg_acq, writes, pageMap, asq_frame,
                               acq_frame, garbage>>
           ELSE IF acq = None
           THEN /\ allocNext' = allocNext + 2
                /\ asq_frame' = asq
                /\ Panic
                /\ UNCHANGED <<submission_queue_tail, completion_queue_head,
                               reg_asq, reg_acq, writes, pageMap, acq_frame,
                               garbage>>
           ELSE /\ allocNext' = allocNext + 2
                /\ asq_frame' = asq
                /\ acq_frame' = acq
                /\ \E mapped \in 0 .. 2 :
                      IF mapped = 0
                      THEN /\ Panic
                           /\ UNCHANGED <<submission_queue_tail,
                                          completion_queue_head, reg_asq,
                                          reg_acq, writes, pageMap, garbage>>
                      ELSE IF mapped = 1
                      THEN /\ pageMap' = pageMap \cup
                                  {<<PageOf(asq_virt_addr), asq>>}
                           /\ Panic
                           /\ UNCHANGED <<submission_queue_tail,
                                          completion_queue_head, reg_asq,
                                          reg_acq, writes, garbage>>
                      ELSE /\ pageMap' = pageMap \cup
                                  {<<PageOf(asq_virt_addr), asq>>,
                                    <<PageOf(acq_virt_addr), asq>>}
                           /\ Log(<<[kind |-> "reg",
                                     addr |-> RegAddr(REG_ASQ),
                                     val |-> asq_virt_addr],
                                    [kind |-> "reg",
                                     addr |-> RegAddr(REG_ACQ),
                                     val |-> acq_virt_addr],
                                    RegWrite(REG_AQA, AqaValue)>>)
                           /\ reg_asq' = asq_virt_addr
                           /\ reg_acq' = acq_virt_addr
                           /\ submission_queue_tail' = 0
                           /\ completion_queue_head' = 0
                           /\ garbage' \in GarbagePhase \X GarbageStatus
                           /\ pc' = "enable"
    /\ UNCHANGED <<nvme_base_addr, doorbell_stride, timeout, cap_dstrd,
                   cap_low16, pciVars, auxVars, allocLimit, identify_frame, cmdResult,
                   identify_read, ctrlVars, ctrl_status, resetHist, ringHist>>

\* enable: read the status register and log the outcome
Enable ==
    /\ pc = "enable"
    /\ \E status \in StatusValues : enableStatus' = status
    /\ pc' = "is_controller_ready"
    /\ UNCHANGED <<driverVars, hwVars, auxVars, pciVars, memVars, writes, cmdResult,
                   identify_read, garbage, ctrlVars, ctrl_status,
                   rdyClearSeen, resetTimedOut, readyCsts, readyReached,
                   ringHist>>

\* init_controller: `if controller.is_controller_ready()`
IsControllerReady ==
    /\ pc = "is_controller_ready"
    /\ \E csts \in StatusValues :
          /\ readyCsts' = csts
          /\ readyReached' = is_controller_ready(csts)
          /\ pc' = IF is_controller_ready(csts) THEN "send_identify_command"
                   ELSE "done"
    /\ UNCHANGED <<driverVars, hwVars, auxVars, pciVars, memVars, writes, cmdResult,
                   identify_read, garbage, ctrlVars, ctrl_status,
                   rdyClearSeen, resetTimedOut, enableStatus, ringHist>>

\* ------------------------------------------------------------ commands
\* send_identify_command, up to the call of submit_admin_command
SendIdentifyCommand ==
    /\ pc = "send_identify_command"
    /\ allocNext' = allocNext + 1
    /\ IF AllocResult = None
       THEN /\ Panic
            /\ UNCHANGED identify_frame
       ELSE /\ identify_frame' = AllocResult
            /\ pc' = "submit_admin_command"
    /\ UNCHANGED <<driverVars, hwVars, auxVars, pciVars, allocLimit, pageMap, asq_frame,
                   acq_frame, writes, cmdResult, identify_read, garbage,
                   ctrlVars, ctrl_status, resetHist, ringHist>>

\* submit_admin_command: its volatile stores, in program order:
\* `write_volatile(asq_addr, cmd)`, then the tail doorbell
SubmitStores(asq_base_addr, old_tail, cmd, new_tail, stride) ==
    <<[kind |-> "cmd",
       addr |-> AddrAdd(asq_base_addr, old_tail * SIZEOF_NvmeCommand),
       val |-> cmd],
      [kind |-> "doorbell", which |-> "sq_tail",
       addr |-> AddrAdd(asq_base_addr, SqTailDoorbellOffset(stride)),
       val |-> new_tail]>>

\* submit_admin_command, up to the call of wait_for_completion: store the
\* command at the tail slot, advance the tail, store the tail doorbell
SubmitAdminCommand ==
    /\ pc = "submit_admin_command"
    /\ LET asq_base_addr == reg_asq
           cmd == IdentifyCommand(NVME_IDENTIFY_CNS, 0, identify_frame.addr)
           newTail == NextTail(submission_queue_tail)
       IN  /\ Log(SubmitStores(asq_base_addr, submission_queue_tail, cmd,
                            newTail, doorbell_stride))
           /\ submission_queue_tail' = newTail
           /\ sq_doorbell' = newTail
    /\ inFlightAtSubmit' = CtrlLag
    /\ submits' = submits + 1
    /\ sinceConsume' = sinceConsume + 1
    /\ pc' = "wait_for_completion"
    /\ UNCHANGED <<nvme_base_addr, doorbell_stride, completion_queue_head,
                   timeout, hwVars, auxVars, pciVars, memVars, cmdResult, identify_read,
                   garbage, ctrl_sq_head, ctrl_cq_tail, ctrl_phase,
                   ctrl_wrapped, ctrl_status, resetHist, lastAccept,
                   tailAtConsume, lastStatus>>

\* a completion that stores the head it consumed, not the new head
CompletionStoresOldHead(base, head, new_head, stride) ==
    <<[kind |-> "doorbell", which |-> "cq_head",
       addr |-> AddrAdd(base, CqHeadDoorbellOffset(stride)),
       val |-> head]>>
\* wait_for_completion: the volatile store of its accepting branch, made
\* after `self.completion_queue_head = ...` with `self.completion_queue_head`
CompletionStores(base, head, new_head, stride) ==
    <<[kind |-> "doorbell", which |-> "cq_head",
       addr |-> AddrAdd(base, CqHeadDoorbellOffset(stride)),
       val |-> new_head]>>

\* wait_for_completion: one iteration of its `loop`, up to the delay
WaitForCompletionPoll ==
    /\ pc = "wait_for_completion"
    /\ LET h == completion_queue_head
           phase_tag == AcqWord(PhaseWordIndex(h))
           status == AcqWord(StatusWordIndex(h))
       IN  IF PhaseMatches(phase_tag, h)
           THEN /\ completion_queue_head' = NextHead(h)
                /\ Log(CompletionStores(reg_asq, h, NextHead(h),
                                        doorbell_stride))
                /\ cmdResult' = IF CommandFailed(status)
                                THEN Err(StatusCodeType(status),
                                         StatusCode(status))
                                ELSE Ok
                /\ garbage' \in GarbagePhase \X GarbageStatus
                /\ lastAccept' = IF CtrlLag < sinceConsume THEN "fresh"
                                 ELSE IF ctrl_wrapped THEN "old"
                                 ELSE "unwritten"
                /\ sinceConsume' = 0
                /\ tailAtConsume' = submission_queue_tail
                /\ lastStatus' = status
                /\ pc' = "cmd_return"
           ELSE /\ pc' = "wait_for_completion_delay"
                /\ UNCHANGED <<completion_queue_head, writes, cmdResult,
                               garbage, lastAccept, sinceConsume,
                               tailAtConsume, lastStatus>>
    /\ UNCHANGED <<nvme_base_addr, doorbell_stride, submission_queue_tail,
                   timeout, hwVars, auxVars, pciVars, memVars, identify_read, ctrlVars,
                   ctrl_status, resetHist, submits, inFlightAtSubmit>>

\* wait_for_completion: timer_wait_ms(50), then the next iteration
WaitForCompletionDelay ==
    /\ pc = "wait_for_completion_delay"
    /\ pc' = "wait_for_completion"
    /\ UNCHANGED <<driverVars, hwVars, auxVars, pciVars, memVars, writes, cmdResult,
                   identify_read, garbage, ctrlVars, ctrl_status, resetHist,
                   ringHist>>

\* send_identify_command after submit_admin_command returned: `?` hands an
\* Err to init_controller's expect; on Ok map and read the result frame
IdentifyReturn ==
    /\ pc = "cmd_return"
    /\ IF ~cmdResult.ok
       THEN /\ Panic
            /\ UNCHANGED <<pageMap, identify_read>>
       ELSE \E ok \in BOOLEAN :
              IF ok
              THEN /\ pageMap' = pageMap \cup
                          {<<PageOf(Virt(identify_frame.addr)),
                             identify_frame>>}
                   /\ identify_read' = TRUE
                   /\ pc' = "done"
              ELSE /\ Panic
                   /\ UNCHANGED <<pageMap, identify_read>>
    /\ UNCHANGED <<driverVars, hwVars, auxVars, pciVars, allocNext, allocLimit, asq_frame,
                   acq_frame, identify_frame, writes, cmdResult, garbage,
                   ctrlVars, ctrl_status, resetHist, ringHist>>

\* a caller that issues a further admin command once the last one has
\* returned, as long as the controller is at most MaxLag commands behind
NextAdminCommand ==
    /\ pc = "cmd_return"
    /\ submits < MaxSubmits
    /\ CtrlLag < MaxLag
    /\ writes' = <<>>
    /\ pc' = "send_identify_command"
    /\ UNCHANGED <<driverVars, hwVars, auxVars, pciVars, memVars, cmdResult, identify_read,
                   garbage, ctrlVars, ctrl_status, resetHist, ringHist>>

\* ------------------------------------------------------------ specifications
\* the state when init_controller is entered, with the PCI functions
\* populated as one of `configs`
\* ------------------------------------------------------------ console
\* vga_buffer.rs.  Characters are their ASCII codes; colours are left out.
\* a screen showing the character ch everywhere
Screen(ch) == [row \in 0 .. BUFFER_HEIGHT - 1 |->
                 [col \in 0 .. BUFFER_WIDTH - 1 |-> ch]]
\* lazy_static WRITER
WRITER == [prompt_position |-> 1, cursor_position |-> 3,
           input_buffer |-> <<>>, user_input_mode |-> FALSE]
\* nothing is written to the console: the screen is left out
ConsoleIdle ==
    /\ writer = WRITER
    /\ vga = <<>>
    /\ pending = <<>>

\* Writer::clear_row
clear_row(chars, row) ==
    [chars EXCEPT ![row] = [col \in 0 .. BUFFER_WIDTH - 1 |-> 32]]
\* a new_line that puts the cursor on the prompt column
new_line_at_prompt(w, chars) ==
    [w |-> [w EXCEPT !.cursor_position = w.prompt_position,
                     !.input_buffer = <<>>],
     chars |-> clear_row([row \in 0 .. BUFFER_HEIGHT - 1 |->
                            IF row < BUFFER_HEIGHT - 1 THEN chars[row + 1]
                            ELSE chars[row]], BUFFER_HEIGHT - 1)]
\* Writer::new_line: every row moves up by one, the last row is cleared,
\* `self.cursor_position = 3`
new_line(w, chars) ==
    [w |-> [w EXCEPT !.cursor_position = 3, !.input_buffer = <<>>],
     chars |-> clear_row([row \in 0 .. BUFFER_HEIGHT - 1 |->
                            IF row < BUFFER_HEIGHT - 1 THEN chars[row + 1]
                            ELSE chars[row]], BUFFER_HEIGHT - 1)]
\* Writer::move_cursor_left
move_cursor_left(w) ==
    IF w.cursor_position > w.prompt_position
    THEN [w EXCEPT !.cursor_position = w.cursor_position - 1]
    ELSE w
\* Writer::write_byte with user-input mode off (with it on, a newline first
\* runs execute_command)
write_byte(w, chars, byte) ==
    IF byte = 10 THEN new_line(w, chars)
    ELSE IF byte = 8
    THEN IF w.cursor_position > w.prompt_position + 2
         THEN LET w1 == move_cursor_left(w)
              IN  [w |-> w1,
                   chars |-> [chars EXCEPT
                       ![BUFFER_HEIGHT - 1][w1.cursor_position] = 32]]
         ELSE [w |-> w, chars |-> chars]
    ELSE LET nl == IF w.cursor_position >= BUFFER_WIDTH
                   THEN new_line(w, chars)
                   ELSE [w |-> w, chars |-> chars]
         IN  [w |-> [nl.w EXCEPT !.cursor_position = nl.w.cursor_position + 1],
              chars |-> [nl.chars EXCEPT
                  ![BUFFER_HEIGHT - 1][nl.w.cursor_position] = byte]]
\* the byte Writer::write_string passes on: `0x20..=0x7e | b'\n'` as it is,
\* anything else as 0xfe
WriteStringByte(byte) ==
    IF (32 <= byte /\ byte <= 126) \/ byte = 10 THEN byte ELSE 254

\* one byte of `writeln!(writer, "\n{}", s)` goes through write_string
WriteNextByte ==
    /\ pending # <<>>
    /\ ~writer.user_input_mode
    /\ LET r == write_byte(writer, vga, WriteStringByte(Head(pending)))
       IN  /\ writer' = r.w
           /\ vga' = r.chars
    /\ pending' = Tail(pending)
    /\ UNCHANGED <<progVars, evalIn, evalOut, timerVars, kernelVars>>

\* printable strings of n characters
PrintableString(n, first) ==
    [i \in 1 .. n |-> 32 + ((first - 32 + 7 * (i - 1)) % 95)]
\* the longest string that stays on the line it starts on
LineCapacity == BUFFER_WIDTH - 3
ConsoleStrings ==
    {PrintableString(n, first) :
        n \in {0, 1, 2, 43, LineCapacity - 1, LineCapacity},
        first \in {32, 83, 126}}

\* no frame allocator has been constructed from a memory map
FramesIdle ==
    /\ memory_rs = "kernel"
    /\ memory_regions = <<>>
    /\ next = 0
    /\ allocated = <<>>
\* `LockedHeap::empty()`
EmptyHeap == [start |-> 0, size |-> 0]
\* init_heap has not been called
HeapIdle ==
    /\ heap_pc = "idle"
    /\ heap_page = 0
    /\ heapMapped = <<>>
    /\ tablesMissing = 0
    /\ map_valid = TRUE
    /\ ALLOCATOR = EmptyHeap

\* the driver, the controller and the bus before init_controller
DriverAtStart(configs) ==
    /\ pci \in configs
    /\ scan = NoScan
    /\ pc = "start"
    /\ nvme_base_addr = 0
    /\ doorbell_stride = 0
    /\ submission_queue_tail = 0
    /\ completion_queue_head = 0
    /\ timeout = 0
    /\ cap_dstrd \in StrideValues
    /\ cap_low16 = 255
    /\ reg_asq = Phys(0)
    /\ reg_acq = Phys(0)
    /\ writes = <<>>
    /\ asq_frame = None
    /\ acq_frame = None
    /\ identify_frame = None
    /\ cmdResult = NoResult
    /\ identify_read = FALSE
    /\ garbage = <<0, 0>>
    /\ sq_doorbell = 0
    /\ ctrl_sq_head = 0
    /\ ctrl_cq_tail = 0
    /\ ctrl_phase = 1
    /\ ctrl_wrapped = FALSE
    /\ ctrl_status \in StatusChoices
    /\ rdyClearSeen = FALSE
    /\ resetTimedOut = FALSE
    /\ enableStatus = -1
    /\ readyCsts = -1
    /\ readyReached = FALSE
    /\ lastAccept = "none"
    /\ inFlightAtSubmit = 0
    /\ submits = 0
    /\ sinceConsume = 0
    /\ tailAtConsume = 0
    /\ lastStatus = -1
    /\ TIMER_TICKS = 0
    /\ timer_wait = NoWait

\* ... with nothing mapped yet and an allocator of up to MaxFrames frames
BootState(configs) ==
    /\ DriverAtStart(configs)
    /\ allocNext = 0
    /\ allocLimit \in 0 .. MaxFrames
    /\ pageMap = {}
    /\ FramesIdle
    /\ HeapIdle

InitBoot(configs) ==
    /\ BootState(configs)
    /\ ConsoleIdle
    /\ evalIn = NoCall
    /\ evalOut = NoCall

Init == InitBoot(PciConfigs)

DriverNext ==
    \/ FindFirstNvme
    \/ MapNvmeBase
    \/ SendInitCommand
    \/ Reset
    \/ WaitNvmeResetPoll
    \/ WaitNvmeResetTimeout
    \/ InitAdminQueues
    \/ Enable
    \/ IsControllerReady
    \/ SendIdentifyCommand
    \/ SubmitAdminCommand
    \/ WaitForCompletionPoll
    \/ WaitForCompletionDelay
    \/ IdentifyReturn

Next == DriverNext \/ ControllerPost

\* init_controller run once against the controller
Spec == Init /\ [][Next]_vars

\* the same, with the processor never ceasing to execute the driver once
\* the bus scan, whose loops are bounded, has returned
DriverRun == pc # "start" /\ DriverNext
FairSpec == Spec /\ WF_vars(DriverRun)

\* the state when init_controller has found the controller ready, with the
\* doorbell stride reset() parsed out of CAP among `strides`
InitRing(strides) ==
    /\ pci = {BridgeFunction(0, 0, 0), NvmeFunction(0, 3, 0)}
    /\ scan = find_first_nvme.scan
    /\ evalIn = NoCall
    /\ evalOut = NoCall
    /\ TIMER_TICKS = 0
    /\ timer_wait = NoWait
    /\ ConsoleIdle
    /\ FramesIdle
    /\ HeapIdle
    /\ pc = "send_identify_command"
    /\ nvme_base_addr = find_first_nvme.addr
    /\ doorbell_stride \in strides
    /\ cap_dstrd = doorbell_stride
    /\ submission_queue_tail = 0
    /\ completion_queue_head = 0
    /\ timeout = NVME_RESET_TIMEOUT
    /\ cap_low16 = 255
    /\ reg_asq = Virt(FrameAddr(0).addr)
    /\ reg_acq = Virt(FrameAddr(1).addr)
    /\ writes = <<>>
    /\ allocNext = 2
    /\ allocLimit = MaxSubmits + MaxFrames
    /\ pageMap = {<<PageOf(Virt(nvme_base_addr)), PageOf(Phys(nvme_base_addr))>>,
                  <<Virt(FrameAddr(0).addr), FrameAddr(0)>>,
                  <<Virt(FrameAddr(1).addr), FrameAddr(0)>>}
    /\ asq_frame = FrameAddr(0)
    /\ acq_frame = FrameAddr(1)
    /\ identify_frame = None
    /\ cmdResult = NoResult
    /\ identify_read = FALSE
    /\ garbage \in GarbagePhase \X GarbageStatus
    /\ sq_doorbell = 0
    /\ ctrl_sq_head = 0
    /\ ctrl_cq_tail = 0
    /\ ctrl_phase = 1
    /\ ctrl_wrapped = FALSE
    /\ ctrl_status \in StatusChoices
    /\ rdyClearSeen = TRUE
    /\ resetTimedOut = FALSE
    /\ enableStatus = 1
    /\ readyCsts = 1
    /\ readyReached = TRUE
    /\ lastAccept = "none"
    /\ inFlightAtSubmit = 0
    /\ submits = 0
    /\ sinceConsume = 0
    /\ tailAtConsume = 0
    /\ lastStatus = -1

\* the admin queue used for a sequence of commands
InitQueue == InitRing(StrideValues)

NextQueue ==
    \/ SendIdentifyCommand
    \/ SubmitAdminCommand
    \/ WaitForCompletionPoll
    \/ WaitForCompletionDelay
    \/ NextAdminCommand
    \/ ControllerPost

SpecQueue == InitQueue /\ [][NextQueue]_vars

\* init_controller from the bus scan to the end of the reset wait, over
\* the populations of the bus the scan distinguishes
InitScan == InitBoot(ScanConfigs)

NextScan ==
    \/ FindFirstNvme
    \/ MapNvmeBase
    \/ SendInitCommand
    \/ Reset
    \/ WaitNvmeResetPoll
    \/ WaitNvmeResetTimeout

SpecScan == InitScan /\ [][NextScan]_vars
\* the same, with the processor never ceasing to execute the reset wait
WaitNvmeReset == WaitNvmeResetPoll \/ WaitNvmeResetTimeout
FairSpecScan == SpecScan /\ WF_vars(WaitNvmeReset)

\* one admin command, for every doorbell stride the 4-bit field can hold
InitDoorbell == InitRing(DstrdValues)

NextDoorbell ==
    \/ SendIdentifyCommand
    \/ SubmitAdminCommand
    \/ WaitForCompletionPoll
    \/ WaitForCompletionDelay
    \/ ControllerPost

SpecDoorbell == InitDoorbell /\ [][NextDoorbell]_vars

\* ------------------------------------------------------------ functions
\* a function called on its own returns `value`
Return(value) ==
    /\ evalOut = NoCall
    /\ evalOut' = [fn |-> evalIn.fn, value |-> value]
    /\ UNCHANGED <<progVars, evalIn, timerVars, consoleVars, kernelVars>>
\* the driver at rest, about to call a function with one of `calls`
InitCall(configs, calls) ==
    /\ BootState(configs)
    /\ ConsoleIdle
    /\ cap_dstrd = 0
    /\ allocLimit = 0
    /\ ctrl_status = <<0, 0>>
    /\ evalIn \in calls
    /\ evalOut = NoCall

\* BAR contents: the type bits of a 64-bit memory BAR and others in bits
\* 0..3, and high halves up to all ones
Bar0Values ==
    {<<lo, hi>> : lo \in {0, 4, 15, 22020, 65520, 65535},
                  hi \in {0, 1, 4660, 32768, 65535}}
Bar1Values == {<<lo, hi>> : lo \in {0, 2, 65535}, hi \in {0, 32768, 65535}}
BarConfigs ==
    {{[NvmeFunction(0, 3, 0) EXCEPT !.bar0 = b0, !.bar1 = b1]} :
        b0 \in Bar0Values, b1 \in Bar1Values}

\* get_nvme_base_addr called for the function at (0, 3, 0)
CallGetNvmeBaseAddr ==
    /\ evalIn.fn = "get_nvme_base_addr"
    /\ Return(get_nvme_base_addr(evalIn.bus, evalIn.device, evalIn.function))

InitBar ==
    InitCall(BarConfigs, {[fn |-> "get_nvme_base_addr", bus |-> 0,
                           device |-> 3, function |-> 0]})
SpecBar == InitBar /\ [][CallGetNvmeBaseAddr]_vars

\* configuration accesses: the arguments of pci_config_address, and the
\* reads get_pci_device makes at `address + offset` of a function's header
ConfigAddressCalls ==
    [fn : {"pci_config_address"}, bus : {0, 1, 128, 255},
     device : {0, 1, 2, 16, 31}, function : {0, 1, 7},
     offset : {0, 2, 8, 11, 16, 252, 255}]
ConfigReadCalls ==
    [fn : {"read_pci_config_word", "read_pci_config_byte"}, bus : {0},
     device : {3}, function : {0}, offset : {0, 2, 8, 9, 10, 11}]

CallPciConfigAddress ==
    /\ evalIn.fn = "pci_config_address"
    /\ Return(pci_config_address(evalIn.bus, evalIn.device, evalIn.function,
                                 evalIn.offset))

CallReadPciConfig ==
    /\ evalIn.fn \in {"read_pci_config_word", "read_pci_config_byte"}
    /\ LET address == Add32(pci_config_address(evalIn.bus, evalIn.device,
                                               evalIn.function, 0),
                            evalIn.offset)
       IN  Return(IF evalIn.fn = "read_pci_config_word"
                  THEN read_pci_config_word(address)
                  ELSE read_pci_config_byte(address))

InitConfig ==
    InitCall({{BridgeFunction(0, 0, 0), NvmeFunction(0, 3, 0)}},
             ConfigAddressCalls \cup ConfigReadCalls)
SpecConfig == InitConfig /\ [][CallPciConfigAddress \/ CallReadPciConfig]_vars

\* ----------------------------------------------------- doorbell stride
\* u64 `x >> n`
RECURSIVE Shr64(_, _)
Shr64(x, n) ==
    IF n >= 16 THEN Shr64(<<x[2], x[3], x[4], 0>>, n - 16)
    ELSE [i \in 1 .. 4 |->
             Shr(x[i], n)
             + (IF i < 4 THEN Shl(x[i + 1] % Pow2(n), 16 - n) ELSE 0)]
\* 32-bit `k * x` for a small k; bits carried past bit 31 are lost
Mul32(k, x) ==
    <<(k * x[1]) % 65536, (k * x[2] + (k * x[1]) \div 65536) % 65536>>
\* a stride field read one bit too wide
CapDstrdWide(cap) ==
    LET dstrd == And64(Shr64(cap, 40), <<31, 0, 0, 0>>)
    IN  dstrd[1] + 65536 * dstrd[2]
\* reset: `(cap >> 40) & 0x0F`, stored `as u32`
CapDstrd(cap) ==
    LET dstrd == And64(Shr64(cap, 40), <<15, 0, 0, 0>>)
    IN  dstrd[1] + 65536 * dstrd[2]
\* submit_admin_command, wait_for_completion:
\* `0x1000 + k * (4 << doorbell_stride)` in 32-bit arithmetic
DoorbellOffset32(k, stride) ==
    Add32(Mul32(k, Shl32(<<4, 0>>, stride)), DOORBELL_BASE)

\* values of the 64-bit register CAP: every DSTRD, with the bits around the
\* field and the other words clear and set
CapValues ==
    {<<w1, w2, 4096 * hi + 256 * dstrd + lo, w4>> :
        w1 \in {0, 65535}, w2 \in {0, 65535}, hi \in {0, 15},
        dstrd \in DstrdValues, lo \in {0, 255}, w4 \in {0, 1, 65535}}
\* doorbells 0 .. 3: the tail and head doorbells of the admin queue and of
\* the first I/O queue
DoorbellFactors == 0 .. 3
StrideCalls ==
    [fn : {"reset"}, cap : CapValues]
    \cup [fn : {"doorbell_offset"}, cap : CapValues, k : DoorbellFactors]

\* reset called on a controller whose CAP reads as evalIn.cap
CallResetStride ==
    /\ evalIn.fn = "reset"
    /\ Return(CapDstrd(evalIn.cap))

\* a doorbell offset computed after that reset
CallDoorbellOffset ==
    /\ evalIn.fn = "doorbell_offset"
    /\ Return(DoorbellOffset32(evalIn.k, CapDstrd(evalIn.cap)))

InitStride == InitCall({{NvmeFunction(0, 3, 0)}}, StrideCalls)
SpecStride == InitStride /\ [][CallResetStride \/ CallDoorbellOffset]_vars

\* --------------------------------------------------------------- timer
\* pit.rs.  TIMER_TICKS is a plain `static mut` that the timer interrupt
\* increments and the wait loop reads with ordinary loads; nothing in the loop
\* writes it, so a build may load it on every iteration or keep the value of
\* one load for the whole loop.  `reloads` is the build's choice.
\* ticks + ticks_to_wait stays far below 2^64 for any uptime.
MsValues == {0, 1, 9, 10, 11, 19, 20, 50}

\* timer_handler: `TIMER_TICKS += 1`
timer_handler ==
    /\ TIMER_TICKS < MaxTicks
    /\ TIMER_TICKS' = TIMER_TICKS + 1
    /\ UNCHANGED <<progVars, evalIn, evalOut, timer_wait, consoleVars,
                   kernelVars>>

\* timer_wait_ms up to the loop: `let ticks = TIMER_TICKS;
\* let ticks_to_wait = ms / 10;`
TimerWaitEnter(ms, reloads) ==
    /\ timer_wait.at = "idle"
    /\ timer_wait' = [at |-> "loop", ms |-> ms, ticks |-> TIMER_TICKS,
                      ticks_to_wait |-> ms \div 10, reloads |-> reloads,
                      returned_at |-> 0]
    /\ UNCHANGED <<progVars, evalIn, evalOut, TIMER_TICKS, consoleVars,
                   kernelVars>>

\* one evaluation of `while TIMER_TICKS < ticks + ticks_to_wait {}`
TimerWaitCheck ==
    /\ timer_wait.at = "loop"
    /\ LET seen == IF timer_wait.reloads THEN TIMER_TICKS
                   ELSE timer_wait.ticks
       IN  IF seen < timer_wait.ticks + timer_wait.ticks_to_wait
           THEN UNCHANGED timer_wait
           ELSE timer_wait' = [timer_wait EXCEPT !.at = "returned",
                                                 !.returned_at = TIMER_TICKS]
    /\ UNCHANGED <<progVars, evalIn, evalOut, TIMER_TICKS, consoleVars,
                   kernelVars>>

NextTimer ==
    \/ timer_handler
    \/ \E ms \in MsValues, reloads \in BOOLEAN : TimerWaitEnter(ms, reloads)
    \/ TimerWaitCheck
InitTimer == InitCall({{NvmeFunction(0, 3, 0)}}, {NoCall})
SpecTimer == InitTimer /\ [][NextTimer]_vars
\* the loop keeps evaluating its condition
FairSpecTimer == SpecTimer /\ WF_vars(TimerWaitCheck)
\* ... and the timer interrupt keeps arriving
FairSpecTicks == FairSpecTimer /\ WF_vars(timer_handler)

\* the test's write on a console in any state with user-input mode off
InitConsole ==
    /\ BootState({{NvmeFunction(0, 3, 0)}})
    /\ cap_dstrd = 0
    /\ allocLimit = 0
    /\ ctrl_status = <<0, 0>>
    /\ evalIn \in [fn : {"writeln"}, s : ConsoleStrings]
    /\ evalOut = NoCall
    /\ writer \in {[WRITER EXCEPT !.cursor_position = c] :
                       c \in {3, 50, BUFFER_WIDTH}}
    /\ vga \in {Screen(32), Screen(120)}
    /\ pending = <<10>> \o evalIn.s \o <<10>>
SpecConsole == InitConsole /\ [][WriteNextByte]_vars

\* ----------------------------------------------------- frame allocator
\* memory.rs, which the repository holds twice: kernel/src/mem/memory.rs
\* filters regions and frames, src/mem/memory.rs takes every frame of every
\* usable region.  Addresses are byte addresses.
LOW_MEMORY_END == 1048576
VIDEO_MEMORY_START == 655360

MemoryRegion(start, end, kind) == [start |-> start, end |-> end, kind |-> kind]
\* `r.step_by(4096)` of `start..end`, each address as the frame containing it
RegionFrames(r) ==
    [k \in 1 .. (r.end - r.start + PAGE_SIZE - 1) \div PAGE_SIZE |->
        LET addr == r.start + PAGE_SIZE * (k - 1)
        IN  Phys(addr - (addr % PAGE_SIZE))]
\* the region filter of usable_frames
UsableRegion(rs, r) ==
    /\ r.kind = "Usable"
    /\ rs = "kernel" => ~(r.end - r.start < PAGE_SIZE)
\* the frame filter of usable_frames
UsableFrame(rs, frame) ==
    rs = "kernel" =>
        /\ frame.addr # 0
        /\ ~(frame.addr < LOW_MEMORY_END)
        /\ ~(frame.addr >= VIDEO_MEMORY_START /\ frame.addr < LOW_MEMORY_END)
\* BootInfoFrameAllocator::usable_frames, as the sequence the iterator yields
RECURSIVE usable_frames(_, _)
usable_frames(rs, regions) ==
    IF regions = <<>> THEN <<>>
    ELSE (IF UsableRegion(rs, Head(regions))
          THEN SelectSeq(RegionFrames(Head(regions)),
                         LAMBDA frame : UsableFrame(rs, frame))
          ELSE <<>>)
         \o usable_frames(rs, Tail(regions))
\* `.nth(n)`
Nth(seq, n) == IF n < Len(seq) THEN seq[n + 1] ELSE None
\* an allocator that stays on the frame it has handed out
NextFrameIndexSame(n) == n
\* allocate_frame: `self.next += 1`
NextFrameIndex(n) == n + 1

\* BootInfoFrameAllocator::allocate_frame
allocate_frame ==
    /\ Len(allocated) < MaxAllocs
    /\ allocated' = Append(allocated,
                           Nth(usable_frames(memory_rs, memory_regions), next))
    /\ next' = NextFrameIndex(next)
    /\ UNCHANGED <<progVars, evalIn, evalOut, timerVars, consoleVars,
                   memory_rs, memory_regions, heapVars>>

\* regions a boot loader may report: low memory with frame 0, a region
\* across the 1 MiB line, a region the boot loader holds, an empty region
\* and regions above; they are disjoint and page-aligned
RegionChoices ==
    {MemoryRegion(0, 8192, "Usable"),
     MemoryRegion(1044480, 1056768, "Usable"),
     MemoryRegion(1056768, 1064960, "Bootloader"),
     MemoryRegion(2097152, 2105344, "Usable"),
     MemoryRegion(3145728, 3145728, "Usable"),
     MemoryRegion(4194304, 4198400, "Usable")}
\* memory maps: the regions in any order, as the map need not be sorted
RECURSIVE MemoryMaps(_)
MemoryMaps(n) ==
    IF n = 0 THEN {<<>>}
    ELSE LET shorter == MemoryMaps(n - 1)
         IN  shorter \cup
             {Append(m, r) : m \in {x \in shorter : Len(x) = n - 1},
                             r \in RegionChoices}
DisjointMap(m) ==
    \A i, j \in 1 .. Len(m) :
        i # j => (m[i] # m[j] /\ (m[i].end <= m[j].start \/ m[j].end <= m[i].start))

\* BootInfoFrameAllocator::init on one of the memory maps
InitFrames ==
    /\ DriverAtStart({{NvmeFunction(0, 3, 0)}})
    /\ cap_dstrd = 0
    /\ ctrl_status = <<0, 0>>
    /\ allocNext = 0
    /\ allocLimit = 0
    /\ pageMap = {}
    /\ ConsoleIdle
    /\ HeapIdle
    /\ evalIn = NoCall
    /\ evalOut = NoCall
    /\ memory_rs \in {"kernel", "src"}
    /\ memory_regions \in {m \in MemoryMaps(MaxRegions) : DisjointMap(m)}
    /\ next = 0
    /\ allocated = <<>>
SpecFrames == InitFrames /\ [][allocate_frame]_vars

\* ---------------------------------------------------------------- heap
\* allocator.rs.  init_heap takes any FrameAllocator and Mapper; the frame
\* allocator is the counter of the driver's model, the mapper is a page
\* table that lacks `tablesMissing` of the three tables above the heap's
\* pages and may hold a mapping already.
HEAP_START == 67108864
HEAP_SIZE == 1048576
\* `Page::range_inclusive(heap_start_page, heap_end_page)`: its length
HEAP_PAGES ==
    LET heap_end == HEAP_START + HEAP_SIZE - 1
    IN  ((heap_end - (heap_end % PAGE_SIZE))
         - (HEAP_START - (HEAP_START % PAGE_SIZE))) \div PAGE_SIZE + 1
\* a page range that runs from the last page down
HeapPageDescending(i) ==
    Virt(HEAP_START - (HEAP_START % PAGE_SIZE)
         + (HEAP_PAGES - 1 - i) * PAGE_SIZE)
\* the page `page_range.enumerate()` yields with index i
HeapPage(i) == Virt(HEAP_START - (HEAP_START % PAGE_SIZE) + i * PAGE_SIZE)
\* a frame mapped before init_heap runs
EarlierFrame == Phys(PAGE_SIZE)

heapRest == <<pc, driverVars, hwVars, pciVars, allocLimit, asq_frame,
              acq_frame, identify_frame, writes, cmdResult, identify_read,
              garbage, ctrlVars, ctrl_status, resetHist, ringHist, evalIn,
              evalOut, timerVars, consoleVars, frameVars>>

\* init_heap up to the page loop: a memory map that fails validation panics
InitHeapValidate ==
    /\ heap_pc = "validate"
    /\ heap_pc' = IF map_valid THEN "page_loop" ELSE "panic"
    /\ UNCHANGED <<heapRest, allocNext, pageMap, heap_page, heapMapped,
                   tablesMissing, map_valid, ALLOCATOR>>

\* one iteration of `for (i, page) in page_range.enumerate()`:
\* allocate_frame, then map_to, which takes a frame for each table it has to
\* create and fails on a page that is mapped already
InitHeapPage ==
    /\ heap_pc = "page_loop"
    /\ heap_page < HEAP_PAGES
    /\ LET frame == AllocResult
           page == HeapPage(heap_page)
           left == IF allocLimit > allocNext + 1
                   THEN allocLimit - (allocNext + 1) ELSE 0
       IN  IF frame = None
           THEN /\ heap_pc' = "FrameAllocationFailed"
                /\ allocNext' = allocNext + 1
                /\ UNCHANGED <<pageMap, heap_page, heapMapped, tablesMissing>>
           ELSE IF tablesMissing > left
           THEN /\ heap_pc' = "FrameAllocationFailed"
                /\ allocNext' = allocNext + 1 + left + 1
                /\ tablesMissing' = tablesMissing - left
                /\ UNCHANGED <<pageMap, heap_page, heapMapped>>
           ELSE IF \E m \in pageMap : m[1] = page
           THEN /\ heap_pc' = "PageAlreadyMapped"
                /\ allocNext' = allocNext + 1 + tablesMissing
                /\ tablesMissing' = 0
                /\ UNCHANGED <<pageMap, heap_page, heapMapped>>
           ELSE /\ allocNext' = allocNext + 1 + tablesMissing
                /\ tablesMissing' = 0
                /\ pageMap' = pageMap \cup {<<page, frame>>}
                /\ heapMapped' = Append(heapMapped, <<page, frame>>)
                /\ heap_page' = heap_page + 1
                /\ UNCHANGED heap_pc
    /\ UNCHANGED <<heapRest, map_valid, ALLOCATOR>>

\* init_heap after the loop: `ALLOCATOR.lock().init(HEAP_START, HEAP_SIZE)`
InitHeapAllocator ==
    /\ heap_pc = "page_loop"
    /\ heap_page = HEAP_PAGES
    /\ ALLOCATOR' = [start |-> HEAP_START, size |-> HEAP_SIZE]
    /\ heap_pc' = "ok"
    /\ UNCHANGED <<heapRest, allocNext, pageMap, heap_page, heapMapped,
                   tablesMissing, map_valid>>

NextHeap == InitHeapValidate \/ InitHeapPage \/ InitHeapAllocator

\* frames the allocator holds when init_heap is called: none, too few for
\* the first pages, too few by a page or by a table, enough
HeapFrameLimits ==
    {0, 1, 2, 4, HEAP_PAGES - 56, HEAP_PAGES, HEAP_PAGES + 1, HEAP_PAGES + 3,
     HEAP_PAGES + 4}
\* heap pages mapped before the call: none, or the first, second or last
EarlierMappings ==
    {{}} \cup {{<<HeapPage(i), EarlierFrame>>} : i \in {0, 1, HEAP_PAGES - 1}}

InitHeap ==
    /\ DriverAtStart({{NvmeFunction(0, 3, 0)}})
    /\ cap_dstrd = 0
    /\ ctrl_status = <<0, 0>>
    /\ ConsoleIdle
    /\ FramesIdle
    /\ evalIn = NoCall
    /\ evalOut = NoCall
    /\ allocNext = 0
    /\ allocLimit \in HeapFrameLimits
    /\ pageMap \in EarlierMappings
    /\ heap_pc = "validate"
    /\ heap_page = 0
    /\ heapMapped = <<>>
    /\ tablesMissing \in 0 .. 3
    /\ map_valid \in BOOLEAN
    /\ ALLOCATOR = EmptyHeap
SpecHeap == InitHeap /\ [][NextHeap]_vars

\* ------------------------------------------------------------ observers
\* the store w is a store of v to controller register off
IsRegWrite(w, off, v) ==
    /\ w.kind = "reg"
    /\ w.addr = RegAddr(off)
    /\ w.val = v
\* the store w is a store to a queue configuration register
IsQueueConfigWrite(w) ==
    /\ w.kind = "reg"
    /\ w.addr \in {RegAddr(REG_AQA), RegAddr(REG_ASQ), RegAddr(REG_ACQ)}
\* number of stores to queue configuration registers in a log
QueueConfigWrites(ws) ==
    Cardinality({i \in 1 .. Len(ws) : IsQueueConfigWrite(ws[i])})
\* the enable bit has been written as 1
EnableIssued == \E i \in 1 .. Len(writes) : IsRegWrite(writes[i], REG_CC, 1)
\* a bring-up step has failed: the reset wait timed out, enable() did not
\* read the status it reports as success, or the driver panicked
StepFailed ==
    \/ resetTimedOut
    \/ (enableStatus # -1 /\ ~EnableObserved(enableStatus))
    \/ pc = "panic"
\* the phase value wait_for_completion compares an entry's phase bit with
ExpectedPhase == completion_queue_head % 2
\* the driver is inside wait_for_completion
Polling == pc \in {"wait_for_completion", "wait_for_completion_delay"}
\* control positions init_controller reaches through its ready branch
AfterReady ==
    {"send_identify_command", "submit_admin_command", "wait_for_completion",
     "wait_for_completion_delay", "cmd_return", "done", "panic"}
\* send_identify_command has returned or panicked
IdentifyOver == pc \in {"cmd_return", "done", "panic"} /\ cmdResult # NoResult

\* the store w is a store to the doorbell `which` ("sq_tail", "cq_head")
IsDoorbellWrite(w, which) == w.kind = "doorbell" /\ w.which = which
\* the stores to a doorbell in the log
DoorbellWrites(which) ==
    {i \in 1 .. Len(writes) : IsDoorbellWrite(writes[i], which)}
\* the driver has panicked on a frame allocation or page mapping failure:
\* every panic but the `expect` on a failed Identify command, which is
\* reached with a failure in cmdResult
SetupPanic == pc = "panic" /\ (cmdResult = NoResult \/ cmdResult.ok)
\* the 4-byte ranges stored to at addresses a and b do not overlap
Disjoint4(a, b) ==
    a.space # b.space \/ a.addr + 4 <= b.addr \/ b.addr + 4 <= a.addr
\* the 4-byte store at address a, made relative to `base`, is at or above
\* offset 0x1000 and touches no byte of the fixed register block
ClearOfRegisterBlock(a, base) ==
    /\ a.space = base.space
    /\ a.addr >= base.addr + DOORBELL_BASE
    /\ (a.space # "virt"
           \/ a.addr + 4 <= nvme_base_addr
           \/ a.addr >= nvme_base_addr + DOORBELL_BASE)

\* ------------------------------------------------------------ claims
\* C1: once the reset wait has used up its 100 polls, no store to a queue
\* configuration register (0x24, 0x28, 0x30) occurs any more.
C1_NoQueueConfigAfterResetTimeout ==
    [][resetTimedOut =>
           QueueConfigWrites(writes') = QueueConfigWrites(writes)]_vars

\* C2: once a bring-up step has failed, the driver performs no further
\* register store, doorbell store or command submission.
C2_FaultedIsTerminal ==
    [][StepFailed => (writes' = writes /\ submits' = submits)]_vars

\* C3: every store of 1 to the configuration register 0x14 is preceded by
\* the reset store of 0 to 0x14 and by stores to 0x28, 0x30 and 0x24.
C3_EnableAfterQueueConfig ==
    \A i \in 1 .. Len(writes) :
        IsRegWrite(writes[i], REG_CC, 1) =>
            /\ \E j \in 1 .. i - 1 : IsRegWrite(writes[j], REG_CC, 0)
            /\ \A r \in {REG_ASQ, REG_ACQ, REG_AQA} :
                   \E j \in 1 .. i - 1 :
                       writes[j].kind = "reg" /\ writes[j].addr = RegAddr(r)

\* C4: wait_for_completion terminates for every behaviour of the
\* controller: whenever the driver polls, it eventually stops polling.
C4_PollingTerminates == Polling ~> ~Polling

\* C5: the driver never accepts the entry at head while the controller has
\* not written that slot since queue initialisation.
C5_NoStaleAccept == lastAccept # "unwritten"

\* C6: the expected phase does not change at a consumption that does not
\* wrap head to 0.
C6_PhaseFlipsOnlyOnWrap ==
    [][(completion_queue_head' # completion_queue_head
            /\ completion_queue_head' # 0)
           => ExpectedPhase' = ExpectedPhase]_vars

C8_OneCommandInFlight == inFlightAtSubmit = 0

\* C9: when the controller has posted the Identify completion with status
\* code type 1 and status code 2 and send_identify_command is over, the
\* result is the failure {1, 2} and the result frame was not interpreted.
C9_IdentifyReportsCommandFailed ==
    (IdentifyOver /\ ctrl_cq_tail > 0 /\ ctrl_status = <<1, 2>>)
        => (cmdResult = Err(1, 2) /\ ~identify_read)

C11_SqTailDoorbellAddress ==
    \A i \in DoorbellWrites("sq_tail") :
        writes[i].addr = RegAddr(DOORBELL_BASE)

\* C12: every store to the completion-queue head doorbell goes to
\* register-window base + 0x1000 + 3 * (4 << doorbell_stride).
C12_CqHeadDoorbellAddress ==
    \A i \in DoorbellWrites("cq_head") :
        writes[i].addr = RegAddr(DOORBELL_BASE + 3 * Shl(4, doorbell_stride))

\* C13: for every doorbell stride 0..15 the 4-byte stores to the submission
\* tail doorbell and to the completion head doorbell do not overlap, and
\* each lies at or above offset 0x1000 of the base it is computed from and
\* outside the fixed register block.
C13_DoorbellsDisjoint ==
    /\ \A i \in DoorbellWrites("sq_tail") :
           \A j \in DoorbellWrites("cq_head") :
               Disjoint4(writes[i].addr, writes[j].addr)
    /\ \A i \in DoorbellWrites("sq_tail") \cup DoorbellWrites("cq_head") :
           ClearOfRegisterBlock(writes[i].addr, reg_asq)

\* C13 witness: with the largest stride, both doorbells have been stored to
\* for one command.
C13_Witness ==
    /\ doorbell_stride = 15
    /\ DoorbellWrites("sq_tail") # {}
    /\ DoorbellWrites("cq_head") # {}

\* C14: every store to the queue base registers 0x28 and 0x30 stores the
\* physical start address of the frame allocated for that queue.
C14_QueueBasesPhysical ==
    \A i \in 1 .. Len(writes) :
        /\ (writes[i].kind = "reg" /\ writes[i].addr = RegAddr(REG_ASQ))
               => (writes[i].val.space = "phys" /\ writes[i].val = asq_frame)
        /\ (writes[i].kind = "reg" /\ writes[i].addr = RegAddr(REG_ACQ))
               => (writes[i].val.space = "phys" /\ writes[i].val = acq_frame)

\* C15: the submission tail and the completion head are in [0, depth) in
\* every reachable state, and so is every value stored to a doorbell.
C15_IndicesInRange ==
    /\ submission_queue_tail \in 0 .. QUEUE_SIZE - 1
    /\ completion_queue_head \in 0 .. QUEUE_SIZE - 1
    /\ \A i \in DoorbellWrites("sq_tail") \cup DoorbellWrites("cq_head") :
           writes[i].val \in 0 .. QUEUE_SIZE - 1

\* C15 witness: the 256th completion has been consumed; head has gone from
\* 255 to 0 and 0 was stored to the head doorbell.
C15_Witness ==
    /\ submits = QUEUE_SIZE
    /\ sinceConsume = 0
    /\ completion_queue_head = 0
    /\ \E i \in DoorbellWrites("cq_head") : writes[i].val = 0

\* C16: the outcome of an accepted completion is a failure exactly when
\* bits 1..8 of its status word are nonzero; a failure carries status code
\* = bits 1..8 and status code type = bits 9..11.
C16_FailureIffStatusCode ==
    lastStatus # -1 =>
        /\ cmdResult.ok <=> (StatusCode(lastStatus) = 0)
        /\ ~cmdResult.ok =>
               /\ cmdResult.sc = StatusCode(lastStatus)
               /\ cmdResult.sct = StatusCodeType(lastStatus)

\* C17: the scan covers bus 0..255, device 0..31 and function 0..7: once it
\* is over, it has found a controller whenever some function in that range
\* has a vendor id other than 0xFFFF, class 0x01 and subclass 0x08, and
\* when it found none it has probed all 256 * 32 * 8 triples.
C17_ScanCoversAllTriples ==
    LET Controllers ==
            {h \in pci : /\ h.bus \in 0 .. 255
                         /\ h.device \in 0 .. 31
                         /\ h.function \in 0 .. 7
                         /\ h.vendor_id # 65535
                         /\ h.class_code = 1
                         /\ h.subclass_code = 8}
    IN  pc # "start" =>
            /\ Controllers # {} => scan.found
            /\ ~scan.found => scan.probes = 256 * 32 * 8

\* C18: when some function has a vendor id other than 0xFFFF, class 0x01
\* and subclass 0x08, the scan returns the lexicographically first such
\* (bus, device, function); a function whose vendor id reads 0xFFFF is never
\* returned; and the last function probed is the one returned.
C18_ScanReturnsFirstMatch ==
    LET Controllers ==
            {h \in pci : /\ h.bus \in 0 .. 255
                         /\ h.device \in 0 .. 31
                         /\ h.function \in 0 .. 7
                         /\ h.vendor_id # 65535
                         /\ h.class_code = 1
                         /\ h.subclass_code = 8}
        Before(a, b) ==
            \/ a.bus < b.bus
            \/ (a.bus = b.bus /\ a.device < b.device)
            \/ (a.bus = b.bus /\ a.device = b.device
                    /\ a.function < b.function)
    IN  (pc # "start" /\ scan.found) =>
            /\ ConfigHeader(scan.bus, scan.device, scan.function).vendor_id
                   # 65535
            /\ \E h \in Controllers :
                   /\ h.bus = scan.bus
                   /\ h.device = scan.device
                   /\ h.function = scan.function
                   /\ \A o \in Controllers : ~Before(o, h)
            /\ scan.probes
                   = ProbeIndex(scan.bus, scan.device, scan.function) + 1

\* C19: when the scan found no controller, bring-up stops: no page is
\* mapped and no controller register is stored to.
C19_NoDeviceStops ==
    (pc # "start" /\ ~scan.found) => (pageMap = {} /\ writes = <<>>)

\* C20: a frame allocation or page mapping failure during bring-up is
\* returned as an error to the caller; the driver never panics on one.
C20_SetupFailureNoPanic == ~SetupPanic

\* C21: get_nvme_base_addr returns (BAR1 << 32) | (BAR0 & 0xFFFFFFF0): bits
\* 0..3 of the result are 0, bits 4..31 are those of BAR0, bits 32..63 are
\* BAR1; BAR0 = 0x12345604 and BAR1 = 0x00000002 give 0x0000000212345600.
C21_BaseAddrFromBars ==
    evalOut # NoCall =>
        LET h == ConfigHeader(evalIn.bus, evalIn.device, evalIn.function)
            r == evalOut.value
        IN  /\ r[1] % 16 = 0
            /\ r[1] \div 16 = h.bar0[1] \div 16
            /\ r[2] = h.bar0[2]
            /\ r[3] = h.bar1[1]
            /\ r[4] = h.bar1[2]
            /\ (h.bar0 = <<22020, 4660>> /\ h.bar1 = <<2, 0>>)
                   => r = <<22016, 4660, 2, 0>>

\* C21 witness: the address has been computed for BAR0 = 0x12345604 and
\* BAR1 = 0x00000002.
C21_Witness ==
    /\ evalOut # NoCall
    /\ evalOut.fn = "get_nvme_base_addr"
    /\ ConfigHeader(0, 3, 0).bar0 = <<22020, 4660>>
    /\ ConfigHeader(0, 3, 0).bar1 = <<2, 0>>

\* C22: pci_config_address(bus, device, function, offset) is 0x80000000 +
\* bus * 2^16 + device * 2^11 + function * 2^8 + (offset with bits 0..1
\* cleared); tuples that differ in bus, device, function or offset & 0xFC
\* have different addresses; (1, 2, 0, 0x08) gives 0x80011008.
C22_ConfigAddressEncoding ==
    (evalOut # NoCall /\ evalOut.fn = "pci_config_address") =>
        LET Aligned(c) == [c EXCEPT !.offset = @ - (@ % 4)]
        IN  /\ evalOut.value =
                   <<evalIn.device * 2048 + evalIn.function * 256
                         + Aligned(evalIn).offset,
                     32768 + evalIn.bus>>
            /\ \A c \in ConfigAddressCalls :
                   Aligned(c) # Aligned(evalIn) =>
                       pci_config_address(c.bus, c.device, c.function,
                                          c.offset) # evalOut.value
            /\ (evalIn.bus = 1 /\ evalIn.device = 2 /\ evalIn.function = 0
                    /\ evalIn.offset = 8)
                   => evalOut.value = <<4104, 32769>>

\* C22 witness: the address of device 31, function 7 on bus 255 at offset
\* 0xFF has been computed.
C22_Witness ==
    /\ evalOut # NoCall
    /\ evalOut.fn = "pci_config_address"
    /\ evalIn.bus = 255
    /\ evalIn.device = 31
    /\ evalIn.function = 7
    /\ evalIn.offset = 255

\* C23: a byte or word configuration read at offset o returns the dword at
\* o & 0xFC shifted right by (o & 3) * 8 bits and masked to the width of
\* the access; the word read at offset 2 returns the device id.
C23_ConfigReadShifts ==
    (evalOut # NoCall
        /\ evalOut.fn \in {"read_pci_config_word", "read_pci_config_byte"})
    =>  LET h == ConfigHeader(evalIn.bus, evalIn.device, evalIn.function)
            dword == HeaderDword(h, evalIn.offset \div 4)
            shifted == Shr32(dword, (evalIn.offset % 4) * 8)
        IN  /\ evalOut.fn = "read_pci_config_word"
                   => evalOut.value = shifted[1]
            /\ evalOut.fn = "read_pci_config_byte"
                   => evalOut.value = shifted[1] % 256
            /\ (evalOut.fn = "read_pci_config_word" /\ evalIn.offset = 2)
                   => evalOut.value = h.device_id

\* C24: every store to the admin-queue-attributes register 0x24 stores
\* 0x00FF00FF, and both 16-bit halves of the value are depth - 1.
C24_AqaValue ==
    \A i \in 1 .. Len(writes) :
        (writes[i].kind = "reg" /\ writes[i].addr = RegAddr(REG_AQA)) =>
            /\ writes[i].val = 16711935
            /\ writes[i].val % 65536 = QUEUE_SIZE - 1
            /\ writes[i].val \div 65536 = QUEUE_SIZE - 1

\* C24 witness: queue initialisation has stored to 0x24.
C24_Witness ==
    /\ pc = "enable"
    /\ \E i \in 1 .. Len(writes) :
           writes[i].kind = "reg" /\ writes[i].addr = RegAddr(REG_AQA)

C26_PrintlnRow ==
    (evalIn.fn = "writeln" /\ pending = <<>>) =>
        \A i \in 1 .. Len(evalIn.s) :
            vga[BUFFER_HEIGHT - 2][i - 1 + writer.prompt_position + 2]
                = evalIn.s[i]

\* C26 witness: the longest such string has been written over a screen full
\* of other characters, from a cursor at the right edge.
C26_Witness ==
    /\ evalIn.fn = "writeln"
    /\ pending = <<>>
    /\ Len(evalIn.s) = LineCapacity
    /\ evalIn.s[1] = 83
    /\ vga[0][0] = 120
    /\ vga[BUFFER_HEIGHT - 2][BUFFER_WIDTH - 1] = evalIn.s[LineCapacity]

\* C27: at every head position and on every pass of the ring, the check of an
\* entry's phase bit against the parity of head accepts an entry exactly when
\* its phase bit is the expected phase that starts at 1 and flips each time
\* head wraps to 0.
C27_ParityIsWrapPhase ==
    LET consumed == IF Polling THEN submits - 1 ELSE submits
        wrapPhase == (consumed \div QUEUE_SIZE + 1) % 2
    IN  pc = "wait_for_completion" =>
            /\ completion_queue_head = consumed % QUEUE_SIZE
            /\ \A bit \in {0, 1} :
                   PhaseMatches(bit, completion_queue_head)
                       <=> (bit = wrapPhase)

\* the stores a step appends to the log
Appended == SubSeq(writes', Len(writes) + 1, Len(writes'))

\* C28: a submit stores the command to the ring slot at the old tail, then
\* advances the tail by one modulo the depth, then stores the new tail to
\* the tail doorbell, once; no other step stores to that doorbell, and every
\* store of a tail t to it comes right after a command store to slot
\* t - 1 (mod depth).  Slot k of the submission ring is the 64 bytes at
\* byte offset 64 * k.
C28_SubmitOrder ==
    /\ [](\A i \in DoorbellWrites("sq_tail") :
             /\ i > 1
             /\ writes[i - 1].kind = "cmd"
             /\ writes[i - 1].addr =
                    AddrAdd(reg_asq,
                            ((writes[i].val + QUEUE_SIZE - 1) % QUEUE_SIZE)
                                * 64))
    /\ [][IF submits' # submits
          THEN /\ submission_queue_tail' =
                      (submission_queue_tail + 1) % QUEUE_SIZE
               /\ Len(Appended) = 2
               /\ Appended[1].kind = "cmd"
               /\ Appended[1].addr =
                      AddrAdd(reg_asq, submission_queue_tail * 64)
               /\ IsDoorbellWrite(Appended[2], "sq_tail")
               /\ Appended[2].val = submission_queue_tail'
          ELSE /\ submission_queue_tail' = submission_queue_tail
               /\ \A k \in 1 .. Len(Appended) :
                      Appended[k].kind # "cmd"
                          /\ ~IsDoorbellWrite(Appended[k], "sq_tail")]_vars

\* C29: a poll that recognises a completion advances head and then stores
\* the new head to the head doorbell, once; a poll that recognises none
\* leaves head and the expected phase as they are and stores nothing; no
\* other step stores to the head doorbell.
C29_HeadDoorbellOncePerCompletion ==
    [][IF pc = "wait_for_completion" /\ pc' = "cmd_return"
       THEN /\ completion_queue_head' =
                   (completion_queue_head + 1) % QUEUE_SIZE
            /\ Len(Appended) = 1
            /\ IsDoorbellWrite(Appended[1], "cq_head")
            /\ Appended[1].val = completion_queue_head'
       ELSE /\ completion_queue_head' = completion_queue_head
            /\ ExpectedPhase' = ExpectedPhase
            /\ \A k \in 1 .. Len(Appended) :
                   ~IsDoorbellWrite(Appended[k], "cq_head")
            /\ pc = "wait_for_completion" => Appended = <<>>]_vars

\* C29 witness: the 256th completion has been recognised, head has wrapped
\* to 0 and the last store is that head to the head doorbell.
C29_Witness ==
    /\ pc = "cmd_return"
    /\ submits = QUEUE_SIZE
    /\ completion_queue_head = 0
    /\ writes # <<>>
    /\ IsDoorbellWrite(writes[Len(writes)], "cq_head")
    /\ writes[Len(writes)].val = 0

\* C30: the entry a poll examines at head h is the 16 bytes at byte offset
\* 16 * h of the completion ring, and the phase tag and the status it takes
\* from it are both in the 16-bit word at bytes 14..15 of that entry.
C30_EntryLayout ==
    [][(pc = "wait_for_completion" /\ pc' = "cmd_return") =>
          LET h == completion_queue_head
              word == (16 * h + 14) \div 2
          IN  /\ PhaseWordIndex(h) = word
              /\ StatusWordIndex(h) = word
              /\ PhaseMatches(AcqWord(word), h)
              /\ lastStatus' = AcqWord(word)]_vars

\* C31: when queue initialisation has finished, the page of the submission
\* ring's virtual address is mapped to the submission-queue frame, the page
\* of the completion ring's virtual address to the completion-queue frame,
\* and the two frames differ.
C31_QueuePagesMapped ==
    pc = "enable" =>
        /\ asq_frame # acq_frame
        /\ \A m \in pageMap :
               /\ m[1] = PageOf(reg_asq) => m[2] = asq_frame
               /\ m[1] = PageOf(reg_acq) => m[2] = acq_frame
        /\ \E m \in pageMap : m[1] = PageOf(reg_asq)
        /\ \E m \in pageMap : m[1] = PageOf(reg_acq)

\* C32: when queue initialisation has finished, the phase tag (bit 0 of the
\* word at bytes 14..15) of every 16-byte entry of the completion ring is 0.
C32_CompletionRingZeroed ==
    pc = "enable" =>
        \A e \in 0 .. QUEUE_SIZE - 1 : AcqWord(8 * e + 7) % 2 = 0

\* C33: a command has been submitted only if the readiness bit was read as
\* set after the enable step; once the enable step has read the readiness
\* bit as clear, no command is submitted and nothing is stored to the
\* submission ring or to a doorbell.
C33_IdentifyOnlyWhenReady ==
    /\ submits > 0 => (readyCsts # -1 /\ readyCsts % 2 = 1)
    /\ (enableStatus # -1 /\ enableStatus % 2 = 0) =>
           /\ submits = 0
           /\ \A i \in 1 .. Len(writes) :
                  writes[i].kind \notin {"cmd", "doorbell"}

\* C34: the reset wait ends, as complete, at the first poll that reads bit 0
\* of the status register as 0, whatever the other bits are; it times out
\* only when no poll has read bit 0 as 0.
C34_ResetCompleteOnBit0 ==
    /\ [](resetTimedOut => ~rdyClearSeen)
    /\ [][(pc = "wait_nvme_reset" /\ ~rdyClearSeen /\ rdyClearSeen')
              => pc' = "init_admin_queues"]_vars

\* the stores of 1 to the configuration register in the log
EnableStores == {i \in 1 .. Len(writes) : IsRegWrite(writes[i], REG_CC, 1)}

\* C35: the reset wait ends whatever the status register reads; it reads
\* the status register at most 100 times (the polls made are the 100 minus
\* the polls left, plus the one that ended the wait), and it stores to the
\* configuration register at most once.
C35_ResetWaitTerminates ==
    /\ [](/\ timeout \in 0 .. NVME_RESET_TIMEOUT
          /\ Cardinality(EnableStores) <= 1
          /\ EnableStores # {} => (timeout >= 1 /\ ~resetTimedOut)
          /\ resetTimedOut => timeout = 0)
    /\ (pc = "wait_nvme_reset") ~> (pc # "wait_nvme_reset")

\* C35 witness: the wait has ended after 100 polls that all read the
\* controller as not reset.
C35_Witness ==
    /\ pc = "init_admin_queues"
    /\ resetTimedOut
    /\ timeout = 0
    /\ EnableStores = {}

\* C36: every command stored to the submission ring by the Identify step
\* has opcode 0x06, the namespace id and the CNS selector init_controller
\* passes (0 and NVME_IDENTIFY_CNS, the selector in the low 8 bits of
\* command-specific word 0, the other words 0), PRP1 = the physical start
\* address of the frame allocated for the result, which is neither queue
\* frame, and PRP2 = 0.
C36_IdentifyEntry ==
    \A i \in 1 .. Len(writes) :
        writes[i].kind = "cmd" =>
            /\ writes[i].val.opcode = 6
            /\ writes[i].val.namespace_id = 0
            /\ writes[i].val.command_specific
                   = <<NVME_IDENTIFY_CNS % 256, 0, 0, 0, 0, 0>>
            /\ identify_frame.space = "phys"
            /\ identify_frame \notin {asq_frame, acq_frame}
            /\ writes[i].val.prp1 = identify_frame.addr
            /\ writes[i].val.prp2 = 0

\* C36 witness: the Identify command has been stored and rung.
C36_Witness ==
    /\ pc = "wait_for_completion"
    /\ submits = 1
    /\ \E i \in 1 .. Len(writes) :
           writes[i].kind = "cmd" /\ writes[i].val.prp1 = identify_frame.addr

\* C37: for every 64-bit CAP value the stride reset stores is in 0 .. 15,
\* and with that stride the offset 0x1000 + k * (4 << stride), k <= 3, as
\* computed in 32 bits is the exact value and stays below 2^31.
C37_StrideAndOffsets ==
    /\ evalOut.fn = "reset" => evalOut.value \in 0 .. 15
    /\ evalOut.fn = "doorbell_offset" =>
           LET stride == CapDstrd(evalIn.cap)
           IN  /\ stride \in 0 .. 15
               /\ LET exact == DOORBELL_BASE + evalIn.k * Shl(4, stride)
                  IN  /\ evalOut.value = <<exact % 65536, exact \div 65536>>
                      /\ evalOut.value[2] < 32768

\* C37 witness: the head doorbell of the first I/O queue with the largest
\* stride, read from a CAP with every other bit of its upper half set.
C37_Witness ==
    /\ evalOut.fn = "doorbell_offset"
    /\ evalIn.k = 3
    /\ evalIn.cap[3] = 65535
    /\ evalIn.cap[4] = 65535
    /\ evalOut.value = <<4096, 6>>

\* the place of a frame in the memory map: its region's index, its address
MapPlace(frame) ==
    <<CHOOSE k \in 1 .. Len(memory_regions) :
          /\ memory_regions[k].kind = "Usable"
          /\ memory_regions[k].start <= frame.addr
          /\ frame.addr < memory_regions[k].end,
      frame.addr>>
\* C38: on a memory map of disjoint page-aligned regions, no frame is
\* returned by two allocate_frame calls, a later call returns a frame that
\* comes later in the map (a later region, or a higher address in the same
\* region), and after a call that returned None every call returns None.
C38_FramesDistinctOrderedSticky ==
    \A i, j \in 1 .. Len(allocated) :
        i < j =>
            /\ allocated[i] = None => allocated[j] = None
            /\ allocated[j] # None =>
                   /\ allocated[i] # allocated[j]
                   /\ \/ MapPlace(allocated[i])[1] < MapPlace(allocated[j])[1]
                      \/ /\ MapPlace(allocated[i])[1] = MapPlace(allocated[j])[1]
                         /\ allocated[i].addr < allocated[j].addr

\* C38 witness: a map whose regions are not in address order has given
\* frames of two regions and then None twice.
C38_Witness ==
    /\ Len(allocated) = MaxAllocs
    /\ allocated[MaxAllocs - 1] = None
    /\ allocated[MaxAllocs] = None
    /\ allocated[1] # None
    /\ allocated[3] # None
    /\ allocated[3].addr < allocated[1].addr

C40_HeapMappedThenInitialised ==
    /\ \A j \in 1 .. Len(heapMapped) :
           /\ heapMapped[j][1] = Virt(HEAP_START + (j - 1) * PAGE_SIZE)
           /\ heapMapped[j] \in pageMap
           /\ \E k \in 0 .. allocNext - 1 : heapMapped[j][2] = FrameAddr(k)
           /\ j > 1 => heapMapped[j - 1][2].addr < heapMapped[j][2].addr
    /\ ALLOCATOR # EmptyHeap =>
           /\ Len(heapMapped) = HEAP_SIZE \div PAGE_SIZE
           /\ ALLOCATOR = [start |-> HEAP_START, size |-> HEAP_SIZE]
    /\ heap_pc = "ok" => ALLOCATOR # EmptyHeap
    /\ heap_pc \in {"FrameAllocationFailed", "PageAlreadyMapped"} =>
           /\ ALLOCATOR = EmptyHeap
           /\ Len(heapMapped) = heap_page
           /\ \A m \in pageMap :
                  (m[1].addr >= HEAP_START + heap_page * PAGE_SIZE
                   /\ m[1].addr < HEAP_START + HEAP_SIZE)
                      => m[2] = EarlierFrame

\* C40 witness: the last page of the heap was mapped already; init_heap
\* has mapped all pages before it and returned the mapper's error.
C40_Witness ==
    /\ heap_pc = "PageAlreadyMapped"
    /\ heap_page = HEAP_SIZE \div PAGE_SIZE - 1
    /\ Len(heapMapped) = heap_page
    /\ ALLOCATOR = EmptyHeap

====
